---- MODULE Spec2Model ----
(***************************************************************************)
(* Model of metrics-mock (src/main.go): a mock metrics endpoint.           *)
(*                                                                         *)
(* The process runs init() (records the start time), main() (loads the    *)
(* configuration, checks that the URIs are unique, registers one handler   *)
(* per URIConf, serves), and then one handler goroutine per request:       *)
(* MatchHeaders, GetVersion, getValue.                                     *)
(*                                                                         *)
(* Representation.  Strings that are only compared are TLA+ strings;       *)
(* strings that are computed on (header names, query values, patterns)     *)
(* are sequences of one-character strings.  float64 values are integers    *)
(* counted in 1/Scale; elapsed time is a whole number of seconds.          *)
(***************************************************************************)
EXTENDS Integers, Sequences, FiniteSets, TLC

VARIABLES
    now,        \* the wall clock (time.Now()), in seconds
    start,      \* var start time.Time
    startWrites,\* ghost: how many times start was assigned
    mainPc,     \* position of init()/main()
    uriConfs,   \* var uriConfs []URIConf of main
    uriset,     \* uriset of main
    idx,        \* loop index of the current loop of main
    mux,        \* handlers registered with http.HandleFunc: <<[pattern, conf]>>
    hs,         \* the handler goroutines: id -> record
    clients     \* environment: the requests the clients may send

vars == <<now, start, startWrites, mainPc, uriConfs, uriset, idx, mux, hs, clients>>

----------------------------------------------------------------------------
(* Bounds of the model *)

MaxTime == 3
MaxHandlers == 2
MaxVersions == 2
SampleSteps == 2

(* float64 values are counted in 1/Scale *)
Scale == 10 * 1000

(* 21.7639, in 1/Scale *)
Fallback == 217639

NoValue == 0 - 1

----------------------------------------------------------------------------
(* Strings as sequences of characters *)

green  == <<"g", "r", "e", "e", "n">>
red    == <<"r", "e", "d">>
canary == <<"c", "a", "n", "a", "r", "y">>
stable == <<"s", "t", "a", "b", "l", "e">>
empty  == <<>>

Min(S) == CHOOSE x \in S : \A y \in S : x <= y

----------------------------------------------------------------------------
(* regexp.Match(pattern, b): RE2 syntax restricted to literals, ".", "^",  *)
(* "$" and an unclosed "(" (a pattern that does not compile).              *)

RegexpCompiles(pattern) ==
    \A i \in 1..Len(pattern) : pattern[i] # "("

RECURSIVE MatchAt(_, _, _, _)
MatchAt(pattern, i, s, j) ==
    IF i > Len(pattern) THEN TRUE
    ELSE IF pattern[i] = "^" THEN j = 1 /\ MatchAt(pattern, i + 1, s, j)
    ELSE IF pattern[i] = "$" THEN j = Len(s) + 1 /\ MatchAt(pattern, i + 1, s, j)
    ELSE IF pattern[i] = "." THEN j <= Len(s) /\ MatchAt(pattern, i + 1, s, j + 1)
    ELSE j <= Len(s) /\ s[j] = pattern[i] /\ MatchAt(pattern, i + 1, s, j + 1)

(* [err |-> compile error, matched |-> the pattern matches somewhere in s] *)
RegexpMatch(pattern, s) ==
    IF ~RegexpCompiles(pattern) THEN [err |-> TRUE, matched |-> FALSE]
    ELSE [err |-> FALSE,
          matched |-> \E j \in 1..(Len(s) + 1) : MatchAt(pattern, 1, s, j)]

----------------------------------------------------------------------------
(* http.Header.Get(key): the first value stored under the canonical form   *)
(* of key, "" when there is none.                                          *)

Upper(c) ==
    CASE c = "a" -> "A" [] c = "k" -> "K" [] c = "x" -> "X" [] OTHER -> c

Lower(c) ==
    CASE c = "A" -> "a" [] c = "K" -> "k" [] c = "X" -> "x" [] OTHER -> c

CanonicalMIMEHeaderKey(key) ==
    [i \in 1..Len(key) |->
        IF i = 1 \/ key[i - 1] = "-" THEN Upper(key[i]) ELSE Lower(key[i])]

HeaderGet(header, key) ==
    LET k == CanonicalMIMEHeaderKey(key)
    IN  IF k \in DOMAIN header THEN header[k][1] ELSE ""

----------------------------------------------------------------------------
(* MatchHeaders: every configured header equals the request's *)

(* faulty variant: one matching header is enough *)
MatchHeadersSome(u, req) ==
    \/ DOMAIN u.Headers = {}
    \/ \E key \in DOMAIN u.Headers : HeaderGet(req.Header, key) = u.Headers[key]

MatchHeaders(u, req) ==
    \A key \in DOMAIN u.Headers : HeaderGet(req.Header, key) = u.Headers[key]

----------------------------------------------------------------------------
(* GetVersion: the index of the first version all of whose params match,   *)
(* 0 for nil.                                                              *)

(* the outcome of one iteration of the loop over version.Params:           *)
(* "ok" (param matches), "break" (found = false; break),                   *)
(* "missing" (found = false, the loop goes on)                             *)
(* faulty variant: the last value of the parameter instead of the first *)
ParamStepLastValue(param, query) ==
    IF param.Name \in DOMAIN query /\ Len(query[param.Name][Len(query[param.Name])]) > 0
    THEN LET m == RegexpMatch(param.Value, query[param.Name][Len(query[param.Name])])
         IN  IF m.err \/ ~m.matched THEN "break" ELSE "ok"
    ELSE "missing"

ParamStep(param, query) ==
    IF param.Name \in DOMAIN query /\ Len(query[param.Name][1]) > 0
    THEN LET m == RegexpMatch(param.Value, query[param.Name][1])
         IN  IF m.err \/ ~m.matched THEN "break" ELSE "ok"
    ELSE "missing"

RECURSIVE ParamsLoop(_, _, _, _)
ParamsLoop(params, k, found, query) ==
    IF k > Len(params) THEN found
    ELSE LET step == ParamStep(params[k], query)
         IN  IF step = "break" THEN FALSE
             ELSE IF step = "missing" THEN ParamsLoop(params, k + 1, FALSE, query)
             ELSE ParamsLoop(params, k + 1, found, query)

RECURSIVE VersionsLoop(_, _, _)
VersionsLoop(versions, i, query) ==
    IF i > Len(versions) THEN 0
    ELSE IF ParamsLoop(versions[i].Params, 1, TRUE, query) THEN i
    ELSE VersionsLoop(versions, i + 1, query)

(* faulty variant: the scan goes on after a match, the last match wins *)
GetVersionLastMatch(u, req) ==
    LET found == {i \in 1..Len(u.Versions) :
                    ParamsLoop(u.Versions[i].Params, 1, TRUE, req.Query)}
    IN  IF found = {} THEN 0 ELSE CHOOSE i \in found : \A j \in found : j <= i

GetVersion(u, req) == VersionsLoop(u.Versions, 1, req.Query)

----------------------------------------------------------------------------
(* getValue *)

(* the shape parameters handed to distuv.Beta *)
ShapeAlpha(metric, elapsed) == (elapsed + 1) * metric.Alpha

ShapeBeta(metric, elapsed) == (elapsed + 1) * metric.Beta

(* distuv.Beta{Alpha, Beta}.Rand(): panics unless both shape parameters    *)
(* are positive; otherwise a sample in [0, 1], here k / SampleSteps        *)
BetaRandPanics(alpha, beta) == alpha <= 0 \/ beta <= 0

BetaSamples == 0..SampleSteps

(* faulty variant: start.Sub(time.Now()) instead of time.Now().Sub(start) *)
getValueSwappedSub(metric, elapsed) ==
    IF metric.Type = "counter" THEN {(0 - elapsed) * metric.Rate * Scale}
    ELSE {Fallback}

(* faulty variant: the metric type is compared ignoring case *)
getValueFoldType(metric, elapsed) ==
    IF metric.Type \in {"counter", "Counter"} THEN {elapsed * metric.Rate * Scale}
    ELSE {Fallback}

(* the values getValue can return for metric at elapsed seconds; the empty *)
(* set when it panics                                                      *)
getValue(metric, elapsed) ==
    IF metric.Type = "counter" THEN {elapsed * metric.Rate * Scale}
    ELSE IF metric.Type = "gauge"
    THEN IF BetaRandPanics(ShapeAlpha(metric, elapsed), ShapeBeta(metric, elapsed))
         THEN {}
         ELSE {metric.Shift * Scale + ((k * Scale) \div SampleSteps) * metric.Multiplier :
                  k \in BetaSamples}
    ELSE {Fallback}

----------------------------------------------------------------------------
(* Configurations (what yaml.Unmarshal can produce) and requests *)

Param(name, value) == [Name |-> name, Value |-> value]

Metric(type, rate, shift, multiplier, alpha, beta) ==
    [Type |-> type, Rate |-> rate, Shift |-> shift, Multiplier |-> multiplier,
     Alpha |-> alpha, Beta |-> beta]

Version(params, metric) == [Params |-> params, Metric |-> metric]

Conf(uri, provider, headers, versions) ==
    [URI |-> uri, Provider |-> provider, Headers |-> headers, Versions |-> versions]

Request(path, query, header) == [Path |-> path, Query |-> query, Header |-> header]

counter2   == Metric("counter", 2, 0, 0, 0, 0)
counterNeg == Metric("counter", 0 - 1, 0, 0, 0, 0)
counter0   == Metric("counter", 0, 7, 7, 0, 0)
gauge11    == Metric("gauge", 0, 0, 1, 1, 1)
gaugeShift == Metric("gauge", 9, 5, 0 - 2, 2, 3)
gauge0     == Metric("gauge", 0, 0, 1, 0, 1)
gaugeNegB  == Metric("gauge", 0, 0, 1, 1, 0 - 1)
histogram  == Metric("histogram", 2, 3, 4, 5, 6)
Counter    == Metric("Counter", 2, 0, 0, 0, 0)
noType     == Metric("", 0, 0, 0, 0, 0)

MetricPool ==
    {counter2, counterNeg, counter0, gauge11, gaugeShift, gauge0, gaugeNegB,
     histogram, Counter, noType}

(* header names *)
xk      == <<"x", "-", "k">>
XK      == <<"X", "-", "K">>
hA      == <<"A">>

NoHeaders == <<>>

HeaderMaps ==
    { NoHeaders,
      (xk :> "s1"),
      (xk :> "s1") @@ (hA :> "t"),
      (hA :> ""),
      (xk :> "s1") @@ (XK :> "s2") }

(* request headers: canonical name -> the values, in order *)
RequestHeaders ==
    { <<>>,
      (XK :> <<"s1">>),
      (XK :> <<"S1">>),
      (XK :> <<"s2", "s1">>),
      (XK :> <<"s1">>) @@ (hA :> <<"t">>),
      (XK :> <<"s1">>) @@ (hA :> <<"u">>),
      (hA :> <<"t">>) }

(* req.URL.Query(): name -> the values, in order (never an empty list) *)
Queries ==
    { <<>>,
      ("version" :> <<canary>>),
      ("version" :> <<stable>>) @@ ("color" :> <<green>>),
      ("color" :> <<green>>),
      ("color" :> <<empty>>),
      ("color" :> <<empty, green>>),
      ("color" :> <<red, green>>),
      ("version" :> <<canary>>) @@ ("color" :> <<red>>),
      ("env" :> <<green>>) @@ ("color" :> <<green>>) }

(* the variants of the resolver's configurations *)
VersionPool ==
    { Version(<<Param("version", canary)>>, counter2),
      Version(<<>>, gauge11),
      Version(<<Param("color", <<"g", "r">>)>>, histogram),
      Version(<<Param("color", <<"(">>)>>, counter2),
      Version(<<Param("version", stable), Param("color", <<"n", "$">>)>>, Counter),
      Version(<<Param("env", <<".">>), Param("color", <<"g", "r">>)>>, gauge0),
      Version(<<Param("color", <<"^", "r", ".", "d">>)>>, gaugeShift) }

RECURSIVE SeqsUpTo(_, _)
SeqsUpTo(S, n) ==
    IF n = 0 THEN {<<>>}
    ELSE LET shorter == SeqsUpTo(S, n - 1)
         IN  shorter \cup {Append(q, x) : q \in shorter, x \in S}

VersionLists == SeqsUpTo(VersionPool, MaxVersions)

----------------------------------------------------------------------------
(* The configuration files of the whole-program specification *)

confA == Conf("/a", "Prometheus", (xk :> "s1"),
              << Version(<<Param("version", canary)>>, counter2),
                 Version(<<>>, gauge11) >>)

confB == Conf("/b", "Prometheus", NoHeaders,
              << Version(<<Param("version", canary)>>, gauge0) >>)

confA2 == Conf("/a", "Prometheus", NoHeaders, << Version(<<>>, counter2) >>)

confX == Conf("/x", "Datadog", NoHeaders, << Version(<<>>, counter2) >>)

ConfigFiles ==
    { <<>>, <<confA>>, <<confA, confB>>, <<confA, confA2>>, <<confB, confA, confA2>>,
      <<confB, confX>>, <<confX, confX>> }

ProgramRequests ==
    { Request(path, query, header) :
        path \in {"/a", "/b"},
        query \in { <<>>, ("version" :> <<canary>>) },
        header \in { <<>>, (XK :> <<"s1">>) } }

----------------------------------------------------------------------------
(* Handler goroutines *)

NoRequest == Request("", <<>>, <<>>)

Idle ==
    [pc |-> "idle", m |-> 0, req |-> NoRequest, calls |-> {}, authorized |-> FALSE,
     version |-> 0, elapsed |-> 0 - 1, status |-> 0, body |-> "", value |-> NoValue]

Handlers == DOMAIN hs

(* the URIConf the handler's closure captured *)
ConfOf(h) == mux[hs[h].m].conf

MetricOf(h) == ConfOf(h).Versions[hs[h].version].Metric

----------------------------------------------------------------------------
(* init() and main() *)

InitStart ==
    /\ mainPc = "init"
    /\ start' = now
    /\ startWrites' = startWrites + 1
    /\ mainPc' = "main"
    /\ UNCHANGED <<now, uriConfs, uriset, idx, mux, hs, clients>>

(* CONFIG_URL is set, the GET and the read succeed, the YAML decodes *)
MainLoadConfig ==
    /\ mainPc = "main"
    /\ \E file \in ConfigFiles : uriConfs' = file
    /\ uriset' = {}
    /\ idx' = 1
    /\ mainPc' = "checkURIs"
    /\ UNCHANGED <<now, start, startWrites, mux, hs, clients>>

(* no CONFIG_URL, a failed GET, a failed read or a YAML error: panic *)
MainLoadPanic ==
    /\ mainPc = "main"
    /\ mainPc' = "panicked"
    /\ UNCHANGED <<now, start, startWrites, uriConfs, uriset, idx, mux, hs, clients>>

(* faulty variant: the loop records the URIs and never panics *)
MainCheckURINoPanic ==
    /\ mainPc = "checkURIs"
    /\ IF idx > Len(uriConfs)
       THEN /\ mainPc' = "register"
            /\ idx' = 1
            /\ UNCHANGED uriset
       ELSE /\ uriset' = uriset \cup {uriConfs[idx].URI}
            /\ idx' = idx + 1
            /\ UNCHANGED mainPc
    /\ UNCHANGED <<now, start, startWrites, uriConfs, mux, hs, clients>>

(* one iteration of the loop that checks the URIs are unique *)
MainCheckURI ==
    /\ mainPc = "checkURIs"
    /\ IF idx > Len(uriConfs)
       THEN /\ mainPc' = "register"
            /\ idx' = 1
            /\ UNCHANGED uriset
       ELSE IF uriConfs[idx].URI \in uriset
       THEN /\ mainPc' = "panicked"
            /\ UNCHANGED <<idx, uriset>>
       ELSE /\ uriset' = uriset \cup {uriConfs[idx].URI}
            /\ idx' = idx + 1
            /\ UNCHANGED mainPc
    /\ UNCHANGED <<now, start, startWrites, uriConfs, mux, hs, clients>>

(* getHandlerFunc(conf): panics on an unknown provider *)
getHandlerFuncPanics(conf) == conf.Provider # "Prometheus"

(* one iteration of the loop that registers the handlers *)
MainRegister ==
    /\ mainPc = "register"
    /\ idx <= Len(uriConfs)
    /\ IF getHandlerFuncPanics(uriConfs[idx])
       THEN /\ mainPc' = "panicked"
            /\ UNCHANGED <<idx, mux>>
       ELSE /\ mux' = Append(mux, [pattern |-> uriConfs[idx].URI, conf |-> uriConfs[idx]])
            /\ idx' = idx + 1
            /\ UNCHANGED mainPc
    /\ UNCHANGED <<now, start, startWrites, uriConfs, uriset, hs, clients>>

(* http.ListenAndServe: serves, or returns an error and main returns *)
MainListenAndServe ==
    /\ mainPc = "register"
    /\ idx > Len(uriConfs)
    /\ \E ok \in BOOLEAN : mainPc' = IF ok THEN "serving" ELSE "exited"
    /\ UNCHANGED <<now, start, startWrites, uriConfs, uriset, idx, mux, hs, clients>>

(* the wall clock advances *)
Tick ==
    /\ now < MaxTime
    /\ now' = now + 1
    /\ UNCHANGED <<start, startWrites, mainPc, uriConfs, uriset, idx, mux, hs, clients>>

----------------------------------------------------------------------------
(* One request: the server dispatches it to the handler registered for its *)
(* path, in a goroutine of its own.                                        *)

Accept(h) ==
    /\ mainPc = "serving"
    /\ hs[h].pc = "idle"
    /\ \E m \in 1..Len(mux), req \in clients :
          /\ req.Path = mux[m].pattern
          /\ hs' = [hs EXCEPT ![h] = [Idle EXCEPT !.pc = "MatchHeaders", !.m = m,
                                                  !.req = req]]
    /\ UNCHANGED <<now, start, startWrites, mainPc, uriConfs, uriset, idx, mux, clients>>

(* faulty variant: the 401 is written and the handler goes on to GetVersion *)
HandlerMatchHeadersFallThrough(h) ==
    /\ hs[h].pc = "MatchHeaders"
    /\ LET ok == MatchHeaders(ConfOf(h), hs[h].req)
       IN  hs' = [hs EXCEPT ![h] =
                    IF ok
                    THEN [@ EXCEPT !.pc = "GetVersion", !.authorized = TRUE,
                                   !.calls = @ \cup {"MatchHeaders"}]
                    ELSE [@ EXCEPT !.pc = "GetVersion", !.calls = @ \cup {"MatchHeaders"},
                                   !.status = 401,
                                   !.body = "headers are not matching"]]
    /\ UNCHANGED <<now, start, startWrites, mainPc, uriConfs, uriset, idx, mux, clients>>

(* if !conf.MatchHeaders(req) { 401 } else ... *)
HandlerMatchHeaders(h) ==
    /\ hs[h].pc = "MatchHeaders"
    /\ LET ok == MatchHeaders(ConfOf(h), hs[h].req)
       IN  hs' = [hs EXCEPT ![h] =
                    IF ok
                    THEN [@ EXCEPT !.pc = "GetVersion", !.authorized = TRUE,
                                   !.calls = @ \cup {"MatchHeaders"}]
                    ELSE [@ EXCEPT !.pc = "done", !.calls = @ \cup {"MatchHeaders"},
                                   !.status = 401,
                                   !.body = "headers are not matching"]]
    /\ UNCHANGED <<now, start, startWrites, mainPc, uriConfs, uriset, idx, mux, clients>>

(* if version := conf.GetVersion(req); version != nil { ... } else { 500 } *)
HandlerGetVersion(h) ==
    /\ hs[h].pc = "GetVersion"
    /\ LET version == GetVersion(ConfOf(h), hs[h].req)
       IN  hs' = [hs EXCEPT ![h] =
                    IF version # 0
                    THEN [@ EXCEPT !.pc = "getValue", !.version = version,
                                   !.calls = @ \cup {"GetVersion"}]
                    ELSE [@ EXCEPT !.pc = "done", !.calls = @ \cup {"GetVersion"},
                                   !.status = 500,
                                   !.body = "500 - cannot find any matching version in request!"]]
    /\ UNCHANGED <<now, start, startWrites, mainPc, uriConfs, uriset, idx, mux, clients>>

(* faulty variant: the handler measures from its own start: it resets start *)
HandlerGetValueResetsStart(h) ==
    /\ hs[h].pc = "getValue"
    /\ start' = now
    /\ startWrites' = startWrites + 1
    /\ hs' = [hs EXCEPT ![h] = [@ EXCEPT !.pc = "done", !.elapsed = 0,
                                         !.calls = @ \cup {"getValue"},
                                         !.status = 200, !.body = "success",
                                         !.value = Fallback]]
    /\ UNCHANGED <<now, mainPc, uriConfs, uriset, idx, mux, clients>>

(* getValue(version), then 200 with the value; a panic of the sampler ends *)
(* the goroutine without a response (net/http recovers it)                 *)
HandlerGetValue(h) ==
    /\ hs[h].pc = "getValue"
    /\ LET elapsed == now - start
           values  == getValue(MetricOf(h), elapsed)
       IN  IF values = {}
           THEN hs' = [hs EXCEPT ![h] = [@ EXCEPT !.pc = "panicked", !.elapsed = elapsed,
                                                  !.calls = @ \cup {"getValue"}]]
           ELSE \E v \in values :
                  hs' = [hs EXCEPT ![h] = [@ EXCEPT !.pc = "done", !.elapsed = elapsed,
                                                    !.calls = @ \cup {"getValue"},
                                                    !.status = 200, !.body = "success",
                                                    !.value = v]]
    /\ UNCHANGED <<now, start, startWrites, mainPc, uriConfs, uriset, idx, mux, clients>>

----------------------------------------------------------------------------
(* The whole program *)

Init ==
    /\ now = 1
    /\ start = 0
    /\ startWrites = 0
    /\ mainPc = "init"
    /\ uriConfs = <<>>
    /\ uriset = {}
    /\ idx = 0
    /\ mux = <<>>
    /\ hs = [h \in 1..MaxHandlers |-> Idle]
    /\ clients = ProgramRequests

Serve ==
    \/ \E h \in Handlers : Accept(h)
    \/ \E h \in Handlers : HandlerMatchHeaders(h)
    \/ \E h \in Handlers : HandlerGetVersion(h)
    \/ \E h \in Handlers : HandlerGetValue(h)
    \/ Tick

Next ==
    \/ InitStart
    \/ MainLoadConfig
    \/ MainLoadPanic
    \/ MainCheckURI
    \/ MainRegister
    \/ MainListenAndServe
    \/ Serve

Spec == Init /\ [][Next]_vars

----------------------------------------------------------------------------
(* The serving phase alone: the state main() reaches with a configuration  *)
(* of one endpoint, drawn from a pool, when ListenAndServe starts.         *)

Serving(conf, n, requests) ==
    /\ now = 1
    /\ start = 1
    /\ startWrites = 1
    /\ mainPc = "serving"
    /\ uriConfs = <<conf>>
    /\ uriset = {conf.URI}
    /\ idx = 2
    /\ mux = <<[pattern |-> conf.URI, conf |-> conf]>>
    /\ hs = [h \in 1..n |-> Idle]
    /\ clients = requests

(* the gate and the resolver: every header map with one variant list, and  *)
(* every variant list behind no header and behind one required header      *)
ResolveConfs ==
    {Conf("/a", "Prometheus", headers, <<Version(<<>>, counter2)>>) :
        headers \in HeaderMaps}
    \cup
    {Conf("/a", "Prometheus", headers, versions) :
        headers \in {NoHeaders, (xk :> "s1")}, versions \in VersionLists}

ResolveRequests ==
    {Request("/a", query, (XK :> <<"s1">>)) : query \in Queries}
    \cup
    {Request("/a", query, header) :
        query \in {<<>>, ("version" :> <<canary>>)}, header \in RequestHeaders}

InitResolve ==
    \E conf \in ResolveConfs : Serving(conf, 1, ResolveRequests)

SpecResolve == InitResolve /\ [][Serve]_vars

(* the value generator: one catch-all variant with every metric of the     *)
(* pool, and requests served at different times                            *)
ValueConfs ==
    {Conf("/a", "Prometheus", NoHeaders, <<Version(<<>>, metric)>>) :
        metric \in MetricPool}

ValueRequests == {Request("/a", <<>>, <<>>)}

InitValue ==
    \E conf \in ValueConfs : Serving(conf, MaxHandlers, ValueRequests)

SpecValue == InitValue /\ [][Serve]_vars

----------------------------------------------------------------------------
(* Properties.  What the specification says, stated apart from the code:   *)
(* a constraint, a variant and a header map as they are described.         *)

Called(h, f) == f \in hs[h].calls

(* the constraint (name, pattern) is satisfied by the query *)
ConstraintSatisfied(param, query) ==
    /\ param.Name \in DOMAIN query
    /\ Head(query[param.Name]) # <<>>
    /\ RegexpCompiles(param.Value)
    /\ \E j \in 1..(Len(Head(query[param.Name])) + 1) :
          MatchAt(param.Value, 1, Head(query[param.Name]), j)

VariantMatches(version, query) ==
    \A k \in 1..Len(version.Params) : ConstraintSatisfied(version.Params[k], query)

MatchingVariants(h) ==
    {i \in 1..Len(ConfOf(h).Versions) :
        VariantMatches(ConfOf(h).Versions[i], hs[h].req.Query)}

EqualFold(a, b) ==
    /\ Len(a) = Len(b)
    /\ \A i \in 1..Len(a) : Lower(a[i]) = Lower(b[i])

(* the request's value of the header called name, whatever the case of name *)
RequestHeaderValue(header, name) ==
    IF \E k \in DOMAIN header : EqualFold(k, name)
    THEN Head(header[CHOOSE k \in DOMAIN header : EqualFold(k, name)])
    ELSE ""

HeadersSatisfied(h) ==
    \A name \in DOMAIN ConfOf(h).Headers :
        RequestHeaderValue(hs[h].req.Header, name) = ConfOf(h).Headers[name]

(* C1: GetVersion returns the matching variant of the smallest index, and  *)
(* nil exactly when no variant matches; a variant without constraints      *)
(* matches whenever no earlier one does; an empty list gives no match.     *)
C1_FirstMatchWins ==
    \A h \in Handlers : Called(h, "GetVersion") =>
        LET versions == ConfOf(h).Versions
            matching == MatchingVariants(h)
        IN  /\ (hs[h].version = 0) <=> (matching = {})
            /\ matching # {} => hs[h].version = Min(matching)
            /\ versions = <<>> => hs[h].version = 0
            /\ \A i \in 1..Len(versions) :
                  (versions[i].Params = <<>> /\ \A j \in 1..(i - 1) : j \notin matching)
                      => hs[h].version = i

(* two different variants match the request and the first one is returned *)
C1_Witness ==
    \E h \in Handlers :
        /\ Called(h, "GetVersion")
        /\ hs[h].version = 1
        /\ MatchingVariants(h) = {1, 2}
        /\ ConfOf(h).Versions[1] # ConfOf(h).Versions[2]
        /\ ConfOf(h).Versions[1].Params # <<>>

C3_HeaderGate ==
    \A h \in Handlers : Called(h, "MatchHeaders") =>
        /\ hs[h].authorized <=> HeadersSatisfied(h)
        /\ DOMAIN ConfOf(h).Headers = {} => hs[h].authorized
        /\ hs[h].authorized =>
              \A name \in DOMAIN ConfOf(h).Headers : \A v \in {"", "s1", "s2", "t", "S1"} :
                  v # ConfOf(h).Headers[name] =>
                      ~MatchHeaders(ConfOf(h),
                          [hs[h].req EXCEPT !.Header =
                              (CanonicalMIMEHeaderKey(name) :> <<v>>) @@ @])

(* a request authorized against two required headers, one of them named    *)
(* in another case than the request's                                      *)
C3_Witness ==
    \E h \in Handlers :
        /\ hs[h].authorized
        /\ Cardinality(DOMAIN ConfOf(h).Headers) = 2
        /\ DOMAIN ConfOf(h).Headers # DOMAIN hs[h].req.Header

(* C4: an unauthorized request ends with 401 and the fixed body, whatever  *)
(* the variants and the query are; GetVersion and getValue are not called  *)
(* for it, and they are called only after the gate has passed.             *)
C4_GateBeforeResolution ==
    \A h \in Handlers :
        /\ (Called(h, "MatchHeaders") /\ ~HeadersSatisfied(h)) =>
              /\ hs[h].pc = "done"
              /\ hs[h].status = 401
              /\ hs[h].body = "headers are not matching"
              /\ hs[h].calls = {"MatchHeaders"}
              /\ hs[h].version = 0
              /\ hs[h].value = NoValue
        /\ Called(h, "GetVersion") => (Called(h, "MatchHeaders") /\ HeadersSatisfied(h))
        /\ Called(h, "getValue") => Called(h, "GetVersion")

(* an unauthorized request whose query matches a configured variant *)
C4_Witness ==
    \E h \in Handlers :
        /\ hs[h].pc = "done"
        /\ hs[h].status = 401
        /\ MatchingVariants(h) # {}
        /\ Len(ConfOf(h).Versions) = 2
        /\ hs[h].req.Query # <<>>

(* C5: a request never ends in a panic of its handler, and it ends with    *)
(* 401 iff the gate fails, with 500 iff the gate passes and no variant     *)
(* matches, with 200 iff the gate passes and some variant matches.         *)
C5_ThreeOutcomes ==
    \A h \in Handlers :
        /\ hs[h].pc # "panicked"
        /\ hs[h].pc = "done" =>
              /\ hs[h].status \in {401, 500, 200}
              /\ hs[h].status = 401 <=> ~HeadersSatisfied(h)
              /\ hs[h].status = 500 <=> (HeadersSatisfied(h) /\ MatchingVariants(h) = {})
              /\ hs[h].status = 200 <=> (HeadersSatisfied(h) /\ MatchingVariants(h) # {})

(* the handlers that answered from a counter model *)
CounterDone(h) ==
    /\ hs[h].pc = "done"
    /\ hs[h].status = 200
    /\ MetricOf(h).Type = "counter"

SameModel(h1, h2) ==
    /\ hs[h1].m = hs[h2].m
    /\ hs[h1].version = hs[h2].version

(* C6 as claimed: a counter's value is elapsed * rate, and of two requests *)
(* answered from the same counter model the later one gets a value at      *)
(* least as large, whatever the rate.                                      *)
C6_CounterMonotone ==
    /\ getValue(counter2, 10) = {20 * Scale}
    /\ \A h \in Handlers : CounterDone(h) =>
          hs[h].value = hs[h].elapsed * MetricOf(h).Rate * Scale
    /\ \A h1, h2 \in Handlers :
          (CounterDone(h1) /\ CounterDone(h2) /\ SameModel(h1, h2)
              /\ hs[h1].elapsed <= hs[h2].elapsed)
            => hs[h1].value <= hs[h2].value

(* C6 as amended: the same, for the counter models whose rate is not       *)
(* negative.                                                               *)
C6_CounterMonotoneNonNegativeRate ==
    /\ getValue(counter2, 10) = {20 * Scale}
    /\ \A h \in Handlers : CounterDone(h) =>
          hs[h].value = hs[h].elapsed * MetricOf(h).Rate * Scale
    /\ \A h1, h2 \in Handlers :
          (CounterDone(h1) /\ CounterDone(h2) /\ SameModel(h1, h2)
              /\ MetricOf(h1).Rate >= 0
              /\ hs[h1].elapsed <= hs[h2].elapsed)
            => hs[h1].value <= hs[h2].value

(* two requests answered from one counter at different times, the later    *)
(* one with the larger value                                               *)
C6_Witness ==
    \E h1, h2 \in Handlers :
        /\ CounterDone(h1) /\ CounterDone(h2) /\ SameModel(h1, h2)
        /\ MetricOf(h1).Rate > 0
        /\ hs[h1].elapsed < hs[h2].elapsed
        /\ hs[h1].value < hs[h2].value

(* C7: for a gauge model the two shape parameters handed to the sampler    *)
(* are positive at every elapsed time, for every configured alpha and      *)
(* beta, and the value is shift + sample * multiplier, sample in [0, 1].   *)
C7_GaugeShapesPositive ==
    \A h \in Handlers : (Called(h, "getValue") /\ MetricOf(h).Type = "gauge") =>
        /\ ShapeAlpha(MetricOf(h), hs[h].elapsed) > 0
        /\ ShapeBeta(MetricOf(h), hs[h].elapsed) > 0
        /\ hs[h].pc = "done"
        /\ LET lo == MetricOf(h).Shift * Scale
               hi == (MetricOf(h).Shift + MetricOf(h).Multiplier) * Scale
           IN  \/ lo <= hs[h].value /\ hs[h].value <= hi
               \/ hi <= hs[h].value /\ hs[h].value <= lo

(* C8: a model whose type is neither "counter" nor "gauge" gives 21.7639   *)
(* at every elapsed time and whatever its other fields are, and the        *)
(* request is answered with 200.                                           *)
C8_FallbackValue ==
    \A h \in Handlers :
        (Called(h, "getValue") /\ MetricOf(h).Type \notin {"counter", "gauge"}) =>
            /\ hs[h].pc = "done"
            /\ hs[h].status = 200
            /\ hs[h].value = Fallback

(* a model of type "Counter" with a rate, answered after some time *)
C8_Witness ==
    \E h \in Handlers :
        /\ hs[h].pc = "done"
        /\ MetricOf(h).Type = "Counter"
        /\ MetricOf(h).Rate # 0
        /\ hs[h].elapsed > 0
        /\ hs[h].value = Fallback

Distinct(paths) ==
    \A i, j \in 1..Len(paths) : i # j => paths[i] # paths[j]

URIs == [i \in 1..Len(uriConfs) |-> uriConfs[i].URI]

Patterns == [i \in 1..Len(mux) |-> mux[i].pattern]

(* C9: the process serves only after the whole configuration was loaded    *)
(* and its URIs were found pairwise distinct; with two equal URIs it       *)
(* panics before any handler is registered; whenever a request is being    *)
(* served the registered paths are pairwise distinct.                      *)
C9_StartupOrdering ==
    /\ mainPc = "serving" =>
          /\ Distinct(URIs)
          /\ Patterns = URIs
          /\ uriset = {URIs[i] : i \in 1..Len(URIs)}
    /\ mux # <<>> => Distinct(URIs)
    /\ ~Distinct(URIs) => (mainPc \in {"checkURIs", "panicked"} /\ mux = <<>>)
    /\ \A h \in Handlers : hs[h].pc # "idle" =>
          (mainPc = "serving" /\ Distinct(Patterns))

(* a request is being served by a process that registered two endpoints *)
C9_Witness ==
    /\ mainPc = "serving"
    /\ Len(mux) = 2
    /\ \E h \in Handlers : hs[h].pc = "done" /\ hs[h].m = 2

(* what a request handled alone gets: the gate's answer, the variant *)
Authorized(h) == MatchHeaders(ConfOf(h), hs[h].req)

Selected(h) == GetVersion(ConfOf(h), hs[h].req)

Isolated ==
    \A h \in Handlers : hs[h].pc # "idle" =>
        /\ startWrites = 1
        /\ Called(h, "MatchHeaders") => (hs[h].authorized <=> Authorized(h))
        /\ Called(h, "MatchHeaders") /\ ~Authorized(h) => hs[h].status = 401
        /\ Called(h, "GetVersion") => hs[h].version = Selected(h)
        /\ Called(h, "GetVersion") /\ Selected(h) = 0 => hs[h].status = 500
        /\ hs[h].status = 200 =>
              /\ hs[h].elapsed \in 0..(now - start)
              /\ hs[h].value \in getValue(MetricOf(h), hs[h].elapsed)

Frozen ==
    (mainPc = "serving") =>
        /\ start' = start
        /\ startWrites' = startWrites
        /\ uriConfs' = uriConfs
        /\ mux' = mux
        /\ mainPc' = mainPc

(* C10: under every interleaving of the handlers, start is written once,   *)
(* before any request is served; no step of the serving phase writes       *)
(* start or the configuration; each request gets the gate's answer and     *)
(* the variant it would get alone, and a value of its own elapsed time.    *)
C10_ConcurrentRequestsIsolated ==
    /\ [](startWrites <= 1)
    /\ []Isolated
    /\ [][Frozen]_vars

(* two requests in flight at once that end with different outcomes *)
C10_Witness ==
    /\ hs[1].pc = "done" /\ hs[1].status = 200
    /\ hs[2].pc = "done" /\ hs[2].status = 401
    /\ hs[1].m = hs[2].m
    /\ hs[1].elapsed > 0

====
